---- MODULE Spec2Model ----
(***************************************************************************)
(* Model of the schema-migration controller (type Migrator) of the kit:   *)
(* Assert / Apply / Rollback / Close against a golang-migrate engine,      *)
(* each wrapped in the deadline envelope Utils.Deadline, with the          *)
(* quiescence gate self.done recreated by every operation.                 *)
(*                                                                         *)
(* One caller issues Assert/Apply/Rollback one after the other (each call  *)
(* starts after the previous one returned).  Every call spawns an inner    *)
(* task; a call that returns TimedOut leaves its inner task running.       *)
(* Close may be called at any moment, once.  The run starts with the call  *)
(* of NewMigrator, whose inner task makes the connection attempts.         *)
(***************************************************************************)
EXTENDS Integers, Sequences, FiniteSets, TLC

(* ------------------------------ bounds --------------------------------- *)

\* number of Assert/Apply/Rollback calls in one run
MaxOps == 2

\* largest retry.Attempts a caller configures
MaxAttempts == 2

\* _MIGRATOR_DEFAULT_RETRY_ATTEMPTS
DefaultAttempts == 1

\* the retry argument of NewMigrator: nil (<<>>) or a configuration <<Attempts>>
Retries == {<<>>} \cup {<<n>> : n \in 1 .. MaxAttempts}

\* highest schema version for which the engine has a migration
MaxVersion == 1

\* width of Go's uint/int in the model (the build's is 64)
UintWidth == 3

UintModulus == 2 ^ UintWidth

Ops == 1 .. MaxOps

\* gate 0 is the channel NewMigrator makes; gate i the one operation i makes
Gates == 0 .. MaxOps

Versions == 0 .. MaxVersion

\* schemaVersion is a Go int: the callers' values, negative included
SchemaVersions == -1 .. MaxVersion

Kinds == {"Assert", "Apply", "Rollback"}

(* ------------------------------ state ---------------------------------- *)

VARIABLES
    version,       \* engine: recorded schema version
    dirty,         \* engine: dirty flag of the recorded version
    nilVersion,    \* engine: TRUE while no version is recorded (fresh database)
    closed,        \* engine: Close() has been invoked
    LockTimeout,   \* engine: self.migrator.LockTimeout
    GracefulStop,  \* engine: a value sits in the GracefulStop channel
    done,          \* done[g]: channel g is "open" (busy) or "closed" (idle)
    selfDone,      \* self.done: the channel the Migrator currently points to
    conn,          \* the NewMigrator call and its inner task
    nops,          \* number of operations started so far
    op,            \* op[i]: the i-th Assert/Apply/Rollback call and its inner task
    cl,            \* the Close call and its inner task
    crashed        \* a goroutine panicked (close of a closed channel)

vars == <<version, dirty, nilVersion, closed, LockTimeout, GracefulStop,
          done, selfDone, conn, nops, op, cl, crashed>>

engine == <<version, dirty, nilVersion>>

(* --------------------------- Go conversions ---------------------------- *)

\* uint(x) for a Go int x: reduction modulo 2^w
ToUint(x) == x % UintModulus

\* int(u) for a Go uint u: two's complement reinterpretation
ToInt(u) == IF u < UintModulus \div 2 THEN u ELSE u - UintModulus

(* ------------------------------ engine --------------------------------- *)

\* migrate.Migrate.Version(): (version, dirty, err)
EngineVersion ==
    {[v |-> 0, d |-> FALSE, e |-> "error"]} \cup
    (IF closed THEN {}
     ELSE IF nilVersion THEN {[v |-> 0, d |-> FALSE, e |-> "ErrNilVersion"]}
     ELSE {[v |-> version, d |-> dirty, e |-> "nil"]})

\* the versions a transition from the recorded version to v passes through
Targets(v) ==
    LET cur == IF nilVersion THEN -1 ELSE version
    IN  IF v > cur THEN (cur + 1) .. v ELSE v .. (cur - 1)

\* migrate.Migrate.Migrate(v): the engine refuses a closed handle, a dirty
\* schema, a version without migration and a transition to the recorded
\* version; otherwise it reaches v, or stops with an error, the version it
\* was working on left dirty or nothing changed.
EngineMigrate(v) ==
    LET same == [e |-> "error", v |-> version, d |-> dirty, n |-> nilVersion]
    IN  IF closed \/ dirty \/ v > MaxVersion \/ (~nilVersion /\ v = version)
        THEN {same}
        ELSE {same, [e |-> "nil", v |-> v, d |-> FALSE, n |-> FALSE]} \cup
             {[e |-> "error", v |-> w, d |-> TRUE, n |-> FALSE] :
                 w \in Targets(v) \cap Versions}

\* migrate.Migrate.Force(v): records v as a clean version, or fails
EngineForce(v) ==
    LET same == [e |-> "error", v |-> version, d |-> dirty, n |-> nilVersion]
    IN  IF closed \/ v < 0 THEN {same}
        ELSE {same, [e |-> "nil", v |-> v, d |-> FALSE, n |-> FALSE]}

(* ------------------------- the operations' records --------------------- *)

NoOp ==
    [kind |-> "none", schemaVersion |-> 0, deadline |-> FALSE,
     pc |-> "unborn", read |-> "none", currentSchemaVersion |-> 0,
     bad |-> FALSE, err |-> "nil", msg |-> "none",
     migrated |-> 0, migrateTo |-> 0, migrateErr |-> "none",
     forced |-> 0, forceTo |-> 0, forceErr |-> "none",
     exceeded |-> FALSE, ret |-> "none"]

NoClose ==
    [deadline |-> FALSE, pc |-> "unborn", gate |-> 0, busy |-> FALSE,
     waited |-> FALSE, errS |-> <<>>, errD |-> <<>>, err |-> "nil", exceeded |-> FALSE,
     ret |-> "none"]

NoConn ==
    [Attempts |-> 0, deadline |-> FALSE, pc |-> "unborn", attempt |-> 0,
     opened |-> 0, err |-> "nil", exceeded |-> FALSE, ret |-> "none"]

\* the inner task of operation i is inside its inner logic (it still has
\* engine calls to make)
InLogic(i) == op[i].pc \in {"version", "force", "migrate"}

Init ==
    /\ version \in Versions
    /\ dirty \in BOOLEAN
    /\ nilVersion \in BOOLEAN
    /\ nilVersion => (version = 0 /\ ~dirty)
    /\ closed = FALSE
    /\ LockTimeout = "default"
    /\ GracefulStop = FALSE
    /\ done = [g \in Gates |-> "unmade"]
    /\ selfDone = 0
    /\ conn = NoConn
    /\ nops = 0
    /\ op = [i \in Ops |-> NoOp]
    /\ cl = NoClose
    /\ crashed = FALSE

(* ------------------------- the calls' records -------------------------- *)

\* A call's record (its arguments, its inner task's locals, its result) is
\* complete once the call has returned and its inner task has ended.  A
\* complete record is kept for one state; after that only what was called
\* and what it returned is remembered, and that until the call after next.
Forget(r) ==
    IF r.pc = "finished" /\ r.ret # "pending"
    THEN [NoOp EXCEPT !.kind = r.kind, !.schemaVersion = r.schemaVersion,
                      !.ret = r.ret, !.pc = "gone"]
    ELSE r

Wipe(r) == IF Forget(r).pc = "gone" THEN [NoOp EXCEPT !.pc = "gone"] ELSE r

ForgetClose(c) ==
    IF c.pc = "finished" /\ c.ret # "pending"
    THEN [NoClose EXCEPT !.ret = c.ret, !.pc = "gone"]
    ELSE c

ForgetConn(c) ==
    IF c.pc = "finished" /\ c.ret # "pending"
    THEN [NoConn EXCEPT !.ret = c.ret, !.pc = "gone"]
    ELSE c

\* operation i's record becomes r
Step(i, r) ==
    /\ op' = [j \in Ops |-> IF j = i THEN r ELSE Forget(op[j])]
    /\ cl' = ForgetClose(cl)
    /\ conn' = ForgetConn(conn)

\* a step of Close: its record becomes c
CloseStep(c) ==
    /\ op' = [j \in Ops |-> Forget(op[j])]
    /\ cl' = c
    /\ conn' = ForgetConn(conn)

(* ------------------- inner logic of the three operations --------------- *)

Fail(m) == [err |-> "Generic", msg |-> m, next |-> "select"]

Succeed == [err |-> "nil", msg |-> "none", next |-> "select"]

Continue(n) == [err |-> "nil", msg |-> "none", next |-> n]

\* Assert/Apply: err != nil && err != migrate.ErrNilVersion
VersionFailed(e) == e # "nil" /\ e # "ErrNilVersion"

\* Rollback: err != nil
RollbackVersionFailed(e) == e # "nil"

\* a variant of AssertLogic: the two directions exchanged
AssertLogicSwapped(r, sv) ==
    IF VersionFailed(r.e) THEN Fail("engine")
    ELSE IF r.d THEN Fail("dirty")
    ELSE IF r.v < ToUint(sv) THEN Fail("behind")
    ELSE IF r.v > ToUint(sv) THEN Fail("ahead")
    ELSE Succeed

\* a variant of AssertLogic: a version behind the desired one is brought up
AssertLogicMigrates(r, sv) ==
    IF VersionFailed(r.e) THEN Fail("engine")
    ELSE IF r.d THEN Fail("dirty")
    ELSE IF r.v > ToUint(sv) THEN Fail("behind")
    ELSE IF r.v < ToUint(sv) THEN Continue("migrate")
    ELSE Succeed

\* Assert's inner function, from the result r of Version()
AssertLogic(r, sv) ==
    IF VersionFailed(r.e) THEN Fail("engine")
    ELSE IF r.d THEN Fail("dirty")
    ELSE IF r.v > ToUint(sv) THEN Fail("behind")
    ELSE IF r.v < ToUint(sv) THEN Fail("ahead")
    ELSE Succeed

\* a variant of ApplyLogic: no early return on equal versions
ApplyLogicNoEqual(r, sv) ==
    IF VersionFailed(r.e) THEN Fail("engine")
    ELSE IF r.d THEN Fail("dirty")
    ELSE IF r.v > ToUint(sv) THEN Fail("behind")
    ELSE Continue("migrate")

\* a variant of ApplyLogic: the dirty flag is not looked at
ApplyLogicNoDirty(r, sv) ==
    IF VersionFailed(r.e) THEN Fail("engine")
    ELSE IF r.v = ToUint(sv) THEN Succeed
    ELSE IF r.v > ToUint(sv) THEN Fail("behind")
    ELSE Continue("migrate")

\* Apply's inner function up to the call of Migrate
ApplyLogic(r, sv) ==
    IF VersionFailed(r.e) THEN Fail("engine")
    ELSE IF r.d THEN Fail("dirty")
    ELSE IF r.v = ToUint(sv) THEN Succeed
    ELSE IF r.v > ToUint(sv) THEN Fail("behind")
    ELSE Continue("migrate")

\* a variant of RollbackCompare: a version ahead of the current one passes
RollbackCompareLax(c, sv) ==
    IF c = ToUint(sv) THEN Succeed
    ELSE IF c < ToUint(sv) THEN Succeed
    ELSE Continue("migrate")

\* Rollback's version comparison, after the dirty branch
RollbackCompare(c, sv) ==
    IF c = ToUint(sv) THEN Succeed
    ELSE IF c < ToUint(sv) THEN Fail("ahead")
    ELSE Continue("migrate")

\* Rollback's inner function up to the call of Force or Migrate
RollbackLogic(r, sv) ==
    IF RollbackVersionFailed(r.e) THEN Fail("engine")
    ELSE IF r.d THEN Continue("force")
    ELSE RollbackCompare(r.v, sv)

\* the engine's answer o to Migrate or Force becomes the engine's state
EngineBecomes(o) ==
    /\ version' = o.v
    /\ dirty' = o.d
    /\ nilVersion' = o.n

\* operation i records the result r of Version() and the outcome x of its logic
Read(i, r, x) ==
    Step(i, [op[i] EXCEPT !.read = r.e,
                          !.currentSchemaVersion = r.v,
                          !.bad = r.d,
                          !.err = x.err,
                          !.msg = x.msg,
                          !.pc = x.next])

Running(i, k, at) ==
    /\ ~crashed
    /\ op[i].kind = k
    /\ op[i].pc = at

AssertVersion(i) ==
    /\ Running(i, "Assert", "version")
    /\ \E r \in EngineVersion :
           Read(i, r, AssertLogic(r, op[i].schemaVersion))
    /\ UNCHANGED <<version, dirty, nilVersion, closed, LockTimeout,
                   GracefulStop, done, selfDone, nops, crashed>>

ApplyVersion(i) ==
    /\ Running(i, "Apply", "version")
    /\ \E r \in EngineVersion :
           Read(i, r, ApplyLogic(r, op[i].schemaVersion))
    /\ UNCHANGED <<version, dirty, nilVersion, closed, LockTimeout,
                   GracefulStop, done, selfDone, nops, crashed>>

RollbackVersion(i) ==
    /\ Running(i, "Rollback", "version")
    /\ \E r \in EngineVersion :
           Read(i, r, RollbackLogic(r, op[i].schemaVersion))
    /\ UNCHANGED <<version, dirty, nilVersion, closed, LockTimeout,
                   GracefulStop, done, selfDone, nops, crashed>>

\* err = self.migrator.Migrate(uint(schemaVersion)), in Apply and in Rollback
Migrate(i) ==
    /\ ~crashed
    /\ op[i].pc = "migrate"
    /\ \E o \in EngineMigrate(ToUint(op[i].schemaVersion)) :
           /\ EngineBecomes(o)
           /\ Step(i, [op[i] EXCEPT
                           !.migrated = @ + 1,
                           !.migrateTo = ToUint(op[i].schemaVersion),
                           !.migrateErr = o.e,
                           !.err = IF o.e = "nil" THEN "nil" ELSE "Generic",
                           !.msg = IF o.e = "nil" THEN "none" ELSE "engine",
                           !.pc = "select"])
    /\ UNCHANGED <<closed, LockTimeout, GracefulStop, done, selfDone, nops,
                   crashed>>

\* a variant of Force: the error of the engine's Force is not looked at
ForceIgnoresErr(i) ==
    /\ ~crashed
    /\ op[i].pc = "force"
    /\ \E o \in EngineForce(ToInt(op[i].currentSchemaVersion)) :
           /\ EngineBecomes(o)
           /\ LET x == RollbackCompare(op[i].currentSchemaVersion,
                                       op[i].schemaVersion)
              IN  Step(i, [op[i] EXCEPT
                               !.forced = @ + 1,
                               !.forceTo = ToInt(op[i].currentSchemaVersion),
                               !.forceErr = o.e,
                               !.err = x.err,
                               !.msg = x.msg,
                               !.pc = x.next])
    /\ UNCHANGED <<closed, LockTimeout, GracefulStop, done, selfDone, nops,
                   crashed>>

\* err = self.migrator.Force(int(currentSchemaVersion)), then the comparison
Force(i) ==
    /\ ~crashed
    /\ op[i].pc = "force"
    /\ \E o \in EngineForce(ToInt(op[i].currentSchemaVersion)) :
           /\ EngineBecomes(o)
           /\ LET x == IF o.e = "nil"
                       THEN RollbackCompare(op[i].currentSchemaVersion,
                                            op[i].schemaVersion)
                       ELSE Fail("engine")
              IN  Step(i, [op[i] EXCEPT
                               !.forced = @ + 1,
                               !.forceTo = ToInt(op[i].currentSchemaVersion),
                               !.forceErr = o.e,
                               !.err = x.err,
                               !.msg = x.msg,
                               !.pc = x.next])
    /\ UNCHANGED <<closed, LockTimeout, GracefulStop, done, selfDone, nops,
                   crashed>>

(* ------------------------- deadline envelope --------------------------- *)

\* the envelope's result: an elapsed deadline supersedes the inner result
Deadline(exceeded, err) == IF exceeded THEN "ErrDeadlineExceeded" ELSE err

\* a variant of MapErr: no case for the exceeded deadline
MapErrNoDeadline(err) == IF err = "nil" THEN "nil" ELSE "Generic"

\* switch { case err == nil: ... case ErrDeadlineExceeded().Is(err): ... }
MapErr(err) ==
    IF err = "nil" THEN "nil"
    ELSE IF err = "ErrDeadlineExceeded" THEN "TimedOut"
    ELSE "Generic"

\* the deadline of operation i's context elapses while the caller waits
Exceeded(i) ==
    /\ ~crashed
    /\ op[i].ret = "pending"
    /\ op[i].deadline
    /\ ~op[i].exceeded
    /\ Step(i, [op[i] EXCEPT !.exceeded = TRUE])
    /\ UNCHANGED <<version, dirty, nilVersion, closed, LockTimeout,
                   GracefulStop, done, selfDone, nops, crashed>>

\* The inner task ends (record r): a caller still waiting receives the
\* result at once, unless the deadline elapses just before it does.
Ended(r) ==
    IF r.ret # "pending" THEN {[r EXCEPT !.pc = "finished"]}
    ELSE {[r EXCEPT !.pc = "finished", !.exceeded = x,
                    !.ret = MapErr(Deadline(x, r.err))] :
             x \in {r.exceeded} \cup (IF r.deadline THEN {TRUE} ELSE {})}

\* self.migrator.LockTimeout = migrate.DefaultLockTimeout, on return
Restored(old, new) ==
    IF old.ret = "pending" /\ new.ret # "pending" THEN "default"
    ELSE LockTimeout

(* ----------------------- release of the gate --------------------------- *)

\* The inner task reads self.done without synchronisation with the caller's
\* later writes of it: it may see the channel of its own operation or that
\* of any operation started since.
SeenDone(i) == i .. selfDone

\* select { case <-self.done: default: ... }
ReleaseSelect(i) ==
    /\ ~crashed
    /\ op[i].pc = "select"
    /\ \E g \in SeenDone(i) :
           IF done[g] = "closed"
           THEN \E r \in Ended(op[i]) :
                    /\ Step(i, r)
                    /\ LockTimeout' = Restored(op[i], r)
           ELSE /\ Step(i, [op[i] EXCEPT !.pc = "close"])
                /\ LockTimeout' = LockTimeout
    /\ UNCHANGED <<version, dirty, nilVersion, closed, GracefulStop, done,
                   selfDone, nops, crashed>>

\* close(self.done): closing a closed channel panics
ReleaseClose(i) ==
    /\ ~crashed
    /\ op[i].pc = "close"
    /\ \E g \in SeenDone(i) :
           IF done[g] = "closed"
           THEN /\ crashed' = TRUE
                /\ Step(i, [op[i] EXCEPT !.pc = "panicked"])
                /\ done' = done
                /\ LockTimeout' = LockTimeout
           ELSE /\ crashed' = crashed
                /\ done' = [done EXCEPT ![g] = "closed"]
                /\ \E r \in Ended(op[i]) :
                       /\ Step(i, r)
                       /\ LockTimeout' = Restored(op[i], r)
    /\ UNCHANGED <<version, dirty, nilVersion, closed, GracefulStop, selfDone,
                   nops>>

(* ---------------------- connection establishment ----------------------- *)

\* NewMigrator is called: retry defaults to a single attempt; Utils.Deadline
\* spawns the inner task
NewMigrator(retry, dl) ==
    /\ conn.pc = "unborn"
    /\ conn' = [NoConn EXCEPT
                    !.Attempts = IF retry = <<>> THEN DefaultAttempts
                                 ELSE retry[1],
                    !.deadline = dl, !.pc = "try", !.ret = "pending"]
    /\ UNCHANGED <<version, dirty, nilVersion, closed, LockTimeout,
                   GracefulStop, done, selfDone, nops, op, cl, crashed>>

\* Utils.ExponentialRetry after one more call of its function: it stops at
\* the first success and after the last attempt
ExponentialRetry(c, ok) ==
    [c EXCEPT !.attempt = @ + 1,
              !.opened = IF ok THEN @ + 1 ELSE @,
              !.err = IF ok THEN "nil" ELSE "Generic",
              !.pc = IF ok \/ c.attempt + 1 >= c.Attempts THEN "ended"
                     ELSE "try"]

\* a variant of Connect: the channel made for the Migrator is left open
ConnectLeavesGateOpen ==
    /\ ~crashed
    /\ conn.pc = "try"
    /\ \E ok \in BOOLEAN :
           LET c == ExponentialRetry(conn, ok)
           IN  IF c.pc = "try"
               THEN conn' = c /\ done' = done
               ELSE \E r \in Ended(c) :
                        /\ conn' = r
                        /\ done' = IF r.ret = "nil"
                                   THEN [done EXCEPT ![0] = "open"]
                                   ELSE done
    /\ UNCHANGED <<version, dirty, nilVersion, closed, LockTimeout,
                   GracefulStop, selfDone, nops, op, cl, crashed>>

\* migrator, err = migrate.New(...): one attempt; when it is the last one
\* made and the caller still waits, NewMigrator returns: on success
\* done := make(chan struct{}, 1); close(done); return &Migrator{...}
Connect ==
    /\ ~crashed
    /\ conn.pc = "try"
    /\ \E ok \in BOOLEAN :
           LET c == ExponentialRetry(conn, ok)
           IN  IF c.pc = "try"
               THEN conn' = c /\ done' = done
               ELSE \E r \in Ended(c) :
                        /\ conn' = r
                        /\ done' = IF r.ret = "nil"
                                   THEN [done EXCEPT ![0] = "closed"]
                                   ELSE done
    /\ UNCHANGED <<version, dirty, nilVersion, closed, LockTimeout,
                   GracefulStop, selfDone, nops, op, cl, crashed>>

\* the deadline of NewMigrator's context elapses while the caller waits
ConnectExceeded ==
    /\ ~crashed
    /\ conn.ret = "pending"
    /\ conn.deadline
    /\ ~conn.exceeded
    /\ conn' = [conn EXCEPT !.exceeded = TRUE]
    /\ UNCHANGED <<version, dirty, nilVersion, closed, LockTimeout,
                   GracefulStop, done, selfDone, nops, op, cl, crashed>>

\* the envelope returns on the elapsed deadline: return nil, ErrMigratorTimedOut()
ConnectReturn ==
    /\ ~crashed
    /\ conn.ret = "pending"
    /\ conn.exceeded
    /\ conn' = [conn EXCEPT
                    !.ret = MapErr(Deadline(conn.exceeded, conn.err))]
    /\ UNCHANGED <<version, dirty, nilVersion, closed, LockTimeout,
                   GracefulStop, done, selfDone, nops, op, cl, crashed>>

(* ------------------------- the caller's side --------------------------- *)

\* the caller starts an operation only when the previous one has returned,
\* and none once it has asked for Close
CallerFree == \A j \in Ops : op[j].ret # "pending"

\* self.done = make(chan struct{}, 1); LockTimeout = time.Until(deadline);
\* Utils.Deadline spawns the inner task
Call(k, sv, dl) ==
    /\ ~crashed
    /\ conn.ret = "nil"
    /\ cl.ret = "none"
    /\ nops < MaxOps
    /\ CallerFree
    /\ nops' = nops + 1
    /\ selfDone' = nops + 1
    /\ done' = [done EXCEPT ![nops + 1] = "open"]
    /\ LockTimeout' = IF dl THEN "remaining" ELSE LockTimeout
    /\ op' = [j \in Ops |->
                 IF j = nops + 1
                 THEN [NoOp EXCEPT !.kind = k, !.schemaVersion = sv,
                                   !.deadline = dl, !.pc = "version",
                                   !.ret = "pending"]
                 ELSE IF j = nops THEN Forget(op[j])
                 ELSE Wipe(op[j])]
    /\ cl' = cl
    /\ conn' = ForgetConn(conn)
    /\ UNCHANGED <<version, dirty, nilVersion, closed, GracefulStop, crashed>>

AssertCall(sv, dl) == Call("Assert", sv, dl)

Apply(sv, dl) == Call("Apply", sv, dl)

Rollback(sv, dl) == Call("Rollback", sv, dl)

\* the envelope returns on the elapsed deadline, the inner task still running:
\* self.migrator.LockTimeout = migrate.DefaultLockTimeout; switch on err
Return(i) ==
    /\ ~crashed
    /\ op[i].ret = "pending"
    /\ op[i].exceeded
    /\ LockTimeout' = "default"
    /\ Step(i, [op[i] EXCEPT
                    !.ret = MapErr(Deadline(op[i].exceeded, op[i].err))])
    /\ UNCHANGED <<version, dirty, nilVersion, closed, GracefulStop, done,
                   selfDone, nops, crashed>>

(* ------------------------------- Close --------------------------------- *)

\* longest error text of the engine's Close, in words
MaxErrLen == 1

ErrWords == {"connection is already closed", "other"}

\* the errors the engine's Close may yield: <<>> is nil
CloseErrors ==
    UNION {[1 .. n -> ErrWords] : n \in 0 .. MaxErrLen}

\* _MIGRATOR_ERR_DB_ALREADY_CLOSED.MatchString(errD.Error())
AlreadyClosed(text) ==
    \E k \in 1 .. Len(text) : text[k] = "connection is already closed"

\* Utils.CombineErrors: nil when both are nil
CombineErrors(a, b) == a \o b

\* a variant of CloseLogic: the source side's error is filtered as well
CloseLogicFiltersBoth(errS, errD) ==
    LET f(e) == IF e # <<>> /\ AlreadyClosed(e) THEN <<>> ELSE e
    IN  IF CombineErrors(f(errS), f(errD)) # <<>> THEN "Generic" ELSE "nil"

\* the inner function of Close, from the pair the engine's Close yielded
CloseLogic(errS, errD) ==
    LET d == IF errD # <<>> /\ AlreadyClosed(errD) THEN <<>> ELSE errD
    IN  IF CombineErrors(errS, d) # <<>> THEN "Generic" ELSE "nil"

\* Close spawns its inner task, which offers a value to GracefulStop
\* (select { case self.migrator.GracefulStop <- true: default: }) and
\* evaluates self.done for <-self.done
Close(dl) ==
    /\ ~crashed
    /\ conn.ret = "nil"
    /\ cl.ret = "none"
    /\ GracefulStop' = TRUE
    /\ CloseStep([NoClose EXCEPT !.deadline = dl, !.gate = selfDone,
                                 !.busy = (done[selfDone] = "open"),
                                 !.pc = "wait", !.ret = "pending"])
    /\ UNCHANGED <<version, dirty, nilVersion, closed, LockTimeout, done,
                   selfDone, nops, crashed>>

\* a variant of CloseEngine: the gate is not waited for
CloseEngineNoWait ==
    /\ ~crashed
    /\ cl.pc = "wait"
    /\ closed' = TRUE
    /\ \E errS \in CloseErrors, errD \in CloseErrors :
           \E c \in Ended([cl EXCEPT !.errS = errS, !.errD = errD,
                                     !.err = CloseLogic(errS, errD)]) :
               CloseStep(c)
    /\ UNCHANGED <<version, dirty, nilVersion, LockTimeout, GracefulStop,
                   done, selfDone, nops, crashed>>

\* <-self.done returns; err, errD := self.migrator.Close() and what follows
CloseEngine ==
    /\ ~crashed
    /\ cl.pc = "wait"
    /\ done[cl.gate] = "closed"
    /\ closed' = TRUE
    /\ \E errS \in CloseErrors, errD \in CloseErrors :
           \E c \in Ended([cl EXCEPT !.errS = errS, !.errD = errD,
                                     !.err = CloseLogic(errS, errD)]) :
               CloseStep(c)
    /\ UNCHANGED <<version, dirty, nilVersion, LockTimeout, GracefulStop,
                   done, selfDone, nops, crashed>>

\* the deadline of Close's context elapses while the caller waits; waited
\* records that the inner task was then blocked in <-self.done
CloseExceeded ==
    /\ ~crashed
    /\ cl.ret = "pending"
    /\ cl.deadline
    /\ ~cl.exceeded
    /\ CloseStep([cl EXCEPT !.exceeded = TRUE,
                            !.waited = (done[cl.gate] = "open")])
    /\ UNCHANGED <<version, dirty, nilVersion, closed, LockTimeout,
                   GracefulStop, done, selfDone, nops, crashed>>

CloseReturn ==
    /\ ~crashed
    /\ cl.ret = "pending"
    /\ cl.exceeded
    /\ CloseStep([cl EXCEPT !.ret = MapErr(Deadline(cl.exceeded, cl.err))])
    /\ UNCHANGED <<version, dirty, nilVersion, closed, LockTimeout,
                   GracefulStop, done, selfDone, nops, crashed>>

(* --------------------------- specification ----------------------------- *)

Next ==
    \/ \E retry \in Retries, dl \in BOOLEAN : NewMigrator(retry, dl)
    \/ Connect
    \/ ConnectExceeded
    \/ ConnectReturn
    \/ \E sv \in SchemaVersions, dl \in BOOLEAN : AssertCall(sv, dl)
    \/ \E sv \in SchemaVersions, dl \in BOOLEAN : Apply(sv, dl)
    \/ \E sv \in SchemaVersions, dl \in BOOLEAN : Rollback(sv, dl)
    \/ \E i \in Ops : AssertVersion(i)
    \/ \E i \in Ops : ApplyVersion(i)
    \/ \E i \in Ops : RollbackVersion(i)
    \/ \E i \in Ops : Force(i)
    \/ \E i \in Ops : Migrate(i)
    \/ \E i \in Ops : ReleaseSelect(i)
    \/ \E i \in Ops : ReleaseClose(i)
    \/ \E i \in Ops : Exceeded(i)
    \/ \E i \in Ops : Return(i)
    \/ \E dl \in BOOLEAN : Close(dl)
    \/ CloseEngine
    \/ CloseExceeded
    \/ CloseReturn

Spec == Init /\ [][Next]_vars

(* ============================== claims ================================= *)

\* the call's record is whole: the call has returned, its inner task ended
Complete(r) == r.pc = "finished" /\ r.ret # "pending"

\* the call returned without its deadline having elapsed
InTime(r) == Complete(r) /\ ~r.exceeded

\* Version() answered with a version: a recorded one, or none yet (then 0)
ReadOk(r) == r.read \in {"nil", "ErrNilVersion"}

\* C1: an Assert(d) whose version read succeeded and whose deadline did not
\* fire, d a schema version (not negative), c the version read: it succeeds
\* exactly when c = d and the schema is not dirty, and fails Generic
\* otherwise; on a clean schema the failure says "behind" when c > d and
\* "ahead" when c < d (a dirty schema is reported as such, whatever c).
C1_AssertContract ==
    \A i \in Ops :
        LET r == op[i]
            c == r.currentSchemaVersion
            d == r.schemaVersion
        IN  (r.kind = "Assert" /\ InTime(r) /\ ReadOk(r) /\ d >= 0) =>
                /\ r.ret \in {"nil", "Generic"}
                /\ r.ret = "nil" <=> (c = d /\ ~r.bad)
                /\ (~r.bad /\ c > d) => r.msg = "behind"
                /\ (~r.bad /\ c < d) => r.msg = "ahead"
                /\ r.bad => r.msg = "dirty"

\* C1 witness: an Assert behind, one ahead, one dirty and one exact have
\* each returned in time
C1_Witness ==
    \E i \in Ops :
        /\ op[i].kind = "Assert" /\ InTime(op[i]) /\ ReadOk(op[i])
        /\ op[i].ret = "Generic" /\ op[i].msg = "behind"
        /\ op[i].currentSchemaVersion > op[i].schemaVersion
        /\ op[i].schemaVersion >= 0

\* C2: an Apply(d) that read a clean version c and whose deadline did not
\* fire, d a schema version: c = d succeeds and c > d fails Generic, both
\* without a call of Migrate or Force; c < d calls Migrate(d) exactly once,
\* succeeds when the engine does and fails Generic when the engine fails.
C2_ApplyContract ==
    \A i \in Ops :
        LET r == op[i]
            c == r.currentSchemaVersion
            d == r.schemaVersion
        IN  (r.kind = "Apply" /\ InTime(r) /\ ReadOk(r) /\ ~r.bad /\ d >= 0) =>
                /\ r.forced = 0
                /\ c = d => (r.ret = "nil" /\ r.migrated = 0)
                /\ c > d => (r.ret = "Generic" /\ r.migrated = 0)
                /\ c < d => /\ r.migrated = 1
                            /\ r.migrateTo = d
                            /\ r.migrateErr = "nil" => r.ret = "nil"
                            /\ r.migrateErr # "nil" => r.ret = "Generic"

\* C2 witness: an Apply upwards whose Migrate failed has returned Generic
C2_Witness ==
    \E i \in Ops :
        /\ op[i].kind = "Apply" /\ InTime(op[i]) /\ ReadOk(op[i])
        /\ ~op[i].bad
        /\ op[i].currentSchemaVersion < op[i].schemaVersion
        /\ op[i].migrated = 1 /\ op[i].migrateErr = "error"
        /\ op[i].ret = "Generic"

\* C3: a Rollback(d) whose deadline did not fire and whose engine calls
\* succeeded, c the current version (0 on a fresh database), d a schema
\* version: on a dirty schema it calls Force(c) once, before the comparison,
\* and goes on; then c = d succeeds without Migrate, c < d fails Generic
\* without Migrate, c > d calls Migrate(d) and succeeds.
C3_RollbackContract ==
    \A i \in Ops :
        LET r == op[i]
            c == r.currentSchemaVersion
            d == r.schemaVersion
        IN  (/\ r.kind = "Rollback" /\ InTime(r) /\ ReadOk(r) /\ d >= 0
             /\ r.forceErr # "error" /\ r.migrateErr # "error") =>
                /\ r.bad => (r.forced = 1 /\ r.forceTo = c)
                /\ ~r.bad => r.forced = 0
                /\ c = d => (r.ret = "nil" /\ r.migrated = 0)
                /\ c < d => (r.ret = "Generic" /\ r.migrated = 0)
                /\ c > d => (r.ret = "nil" /\ r.migrated = 1 /\ r.migrateTo = d)

\* C10: on a fresh database (Version() yields the "no version" sentinel)
\* Assert(0), Apply(0) and Rollback(0) succeed without touching the engine.
C10_FreshIsZero ==
    \A i \in Ops :
        LET r == op[i]
        IN  (InTime(r) /\ r.read = "ErrNilVersion" /\ r.schemaVersion = 0) =>
                /\ r.ret = "nil"
                /\ r.migrated = 0
                /\ r.forced = 0

\* C4: Close was called while the gate was busy (an operation in flight):
\* the engine's Close has not been invoked while an inner task is still
\* inside its logic, Version/Force/Migrate calls ahead of it.
C4_CloseAwaitsLogic ==
    (closed /\ cl.busy) => \A i \in Ops : ~InLogic(i)

\* C5: a Close without deadline that has not returned, every inner logic
\* completed, is never left without a step to take; and Close has not
\* returned success while the gate it waits on is busy.
C5_CloseReturns ==
    /\ (cl.ret = "pending" /\ ~cl.deadline /\ \A i \in Ops : ~InLogic(i))
           => ENABLED Next
    /\ cl.ret = "nil" => done[cl.gate] = "closed"

\* C6: a call of Assert, Apply or Rollback whose deadline elapsed before it
\* returned has returned TimedOut, whatever its inner logic yielded.
C6_TimedOutWins ==
    \A i \in Ops :
        (op[i].exceeded /\ op[i].ret # "pending") => op[i].ret = "TimedOut"

\* C6 witness: the deadline elapsed, the inner logic failed, the call
\* returned TimedOut
C6_Witness ==
    \E i \in Ops :
        /\ Complete(op[i])
        /\ op[i].exceeded
        /\ op[i].err = "Generic"
        /\ op[i].ret = "TimedOut"

\* the text of error e holds the words "connection is already closed"
SaysClosed(e) == \E k \in DOMAIN e : e[k] = "connection is already closed"

\* C7: whatever pair (errS, errD) the engine's Close yielded, Close's inner
\* function succeeds exactly when errS is nil and errD is nil or says the
\* connection is already closed, and fails Generic otherwise; that is what
\* Close returns unless its deadline elapsed.
C7_CloseErrors ==
    cl.pc = "finished" =>
        /\ cl.err \in {"nil", "Generic"}
        /\ cl.err = "nil" <=> (cl.errS = <<>> /\ (cl.errD = <<>> \/ SaysClosed(cl.errD)))
        /\ (cl.ret # "pending" /\ ~cl.exceeded) => cl.ret = cl.err

\* C7 witness: the database side said "already closed", the source side
\* nothing, and Close returned success
C7_Witness ==
    /\ cl.pc = "finished"
    /\ cl.errS = <<>>
    /\ SaysClosed(cl.errD)
    /\ cl.ret = "nil"

\* a step of the inner task of operation i
TaskStep(i) ==
    /\ op[i].pc \in {"version", "force", "migrate", "select", "close"}
    /\ op'[i].pc # op[i].pc

\* C8: an Assert never stands before a call of Migrate or Force and has
\* made none, and no step of its inner task changes the engine's recorded
\* version or dirty flag.
C8_AssertReadsOnly ==
    /\ [](\A i \in Ops :
              op[i].kind = "Assert" =>
                  /\ op[i].pc \notin {"force", "migrate"}
                  /\ op[i].migrated = 0
                  /\ op[i].forced = 0)
    /\ [][\A i \in Ops :
              (op[i].kind = "Assert" /\ TaskStep(i)) => UNCHANGED engine]_vars

\* C8 witness: an Assert has returned, once with each result
C8_Witness ==
    /\ \E i \in Ops : op[i].kind = "Assert" /\ Complete(op[i])
                      /\ op[i].ret = "TimedOut"
    /\ \E i \in Ops : op[i].kind = "Assert" /\ op[i].ret \in {"nil", "Generic"}

\* C9: an Assert or Apply that read a dirty schema fails Generic with the
\* dirty message (no comparison made) and calls neither Migrate nor Force;
\* and the dirty flag is cleared by no step but a Rollback's Force of the
\* version it read.
C9_DirtyOnlyRollback ==
    /\ [](\A i \in Ops :
              (op[i].kind \in {"Assert", "Apply"} /\ op[i].bad) =>
                  /\ op[i].err = "Generic"
                  /\ op[i].msg = "dirty"
                  /\ op[i].pc \in {"select", "close", "finished", "panicked"}
                  /\ op[i].migrated = 0
                  /\ op[i].forced = 0
                  /\ InTime(op[i]) => op[i].ret = "Generic")
    /\ [][(dirty /\ ~dirty') =>
              \E i \in Ops :
                  /\ op[i].kind = "Rollback"
                  /\ op[i].pc = "force"
                  /\ op'[i].forced = op[i].forced + 1
                  /\ version' = op[i].currentSchemaVersion]_vars

\* C9 witness: an Apply read a dirty schema and returned Generic, and a
\* Rollback has cleared a dirty flag
C9_Witness ==
    /\ \E i \in Ops : op[i].kind = "Apply" /\ op[i].bad /\ InTime(op[i])
    /\ \E i \in Ops : op[i].kind = "Rollback" /\ op[i].bad
                      /\ op[i].forceErr = "nil" /\ ~dirty

\* C11: NewMigrator makes at most Attempts connection attempts and opens at
\* most one engine handle; once it has returned, it has returned a Migrator
\* exactly when an attempt succeeded and the deadline had not elapsed, the
\* channel it made being closed (gate idle) and the current one; TimedOut
\* exactly when the deadline had elapsed; and Generic exactly when every one
\* of the Attempts attempts failed and the deadline had not elapsed.
C11_NewMigratorContract ==
    /\ conn.attempt <= conn.Attempts
    /\ conn.opened <= 1
    /\ conn.pc = "finished" => (conn.opened = 1 \/ conn.attempt = conn.Attempts)
    /\ (conn.pc # "gone" /\ conn.ret \notin {"none", "pending"}) =>
           /\ conn.ret = "nil" <=>
                  (conn.pc = "finished" /\ conn.opened = 1 /\ ~conn.exceeded)
           /\ conn.ret = "nil" => (done[0] = "closed" /\ selfDone = 0)
           /\ conn.ret = "TimedOut" <=> conn.exceeded
           /\ conn.ret = "Generic" <=>
                  (/\ conn.pc = "finished" /\ conn.opened = 0
                   /\ conn.attempt = conn.Attempts /\ ~conn.exceeded)
    /\ conn.ret # "nil" => (nops = 0 /\ cl.ret = "none")

\* C11 witness: the first attempt failed, the second succeeded in time, and
\* a Migrator was returned with its gate idle
C11_Witness ==
    /\ conn.pc = "finished"
    /\ conn.attempt = 2
    /\ conn.opened = 1
    /\ conn.ret = "nil"
    /\ done[0] = "closed"

TaskEnded(i) == op[i].pc \in {"finished", "gone"}

\* C13: the gate an operation made is released once: when the operation's
\* inner task has ended the gate is idle (not zero times), and no release
\* ever hits a gate that is already idle (not twice: that close panics).
C13_ReleasedExactlyOnce ==
    /\ ~crashed
    /\ \A i \in Ops : TaskEnded(i) => done[i] = "closed"

\* C14: the Migrator's current gate is idle only if no operation's inner
\* logic is still running against the engine.
C14_IdleMeansQuiet ==
    done[selfDone] = "closed" => \A i \in Ops : ~InLogic(i)

\* C15: while the caller is in no call the engine's lock timeout is the
\* default; it is the remaining time only while a call whose context has a
\* deadline is pending; and a call that has returned (the lock timeout
\* restored) has no inner logic still running.
C15_LockTimeoutRestored ==
    /\ CallerFree => LockTimeout = "default"
    /\ LockTimeout = "remaining" =>
           \E i \in Ops : op[i].ret = "pending" /\ op[i].deadline
    /\ \A i \in Ops : op[i].ret \in {"nil", "Generic", "TimedOut"} => ~InLogic(i)

\* C16: the inner task of a call that returned TimedOut runs on: while it
\* is inside its logic the gate the call made stays busy, and once it has
\* ended that gate has been released.
C16_TimedOutTaskReleases ==
    \A i \in Ops :
        op[i].ret = "TimedOut" =>
            /\ InLogic(i) => done[i] = "open"
            /\ TaskEnded(i) => done[i] = "closed"

\* C18: with the calls made one after the other, at most one operation's
\* inner logic is at the engine (Version, Migrate, Force) at any instant.
C18_OneAtTheEngine ==
    Cardinality({i \in Ops : InLogic(i)}) <= 1

\* C20: a call with a negative desired version that read a clean version
\* never calls Migrate, and fails Generic.
C20_NegativeNeverMigrates ==
    \A i \in Ops :
        LET r == op[i]
        IN  (r.schemaVersion < 0 /\ ReadOk(r) /\ ~r.bad) =>
                /\ r.pc # "migrate"
                /\ r.migrated = 0
                /\ r.pc \in {"select", "close", "finished"} => r.err = "Generic"
                /\ InTime(r) => r.ret = "Generic"

\* Close returns to its caller in this step
CloseReturns == cl.ret = "pending" /\ cl'.ret # "pending"

\* C17 as stated: Close's deadline elapsed while its inner task waited on
\* a busy gate; when Close returns it returns TimedOut, and the engine's
\* Close has not been invoked at that moment.
C17_TimedOutBeforeEngineClose ==
    [][(cl.waited /\ CloseReturns) =>
           (cl'.ret = "TimedOut" /\ ~closed')]_vars

\* C17 amended: Close's deadline elapsed while its inner task waited on a
\* busy gate: Close returns TimedOut, never Generic or success; the
\* engine's Close has not been invoked when the deadline elapses, nor when
\* Close returns with the gate still busy.  (When the gate turns idle
\* between the two, the engine's Close may run before Close returns.)
C17_TimedOutWhileWaiting ==
    /\ []((cl.waited /\ cl.ret # "pending") => cl.ret = "TimedOut")
    /\ [][(~cl.exceeded /\ cl'.exceeded /\ cl'.waited) =>
              (cl'.pc = "wait" /\ ~closed')]_vars
    /\ [][(cl.waited /\ CloseReturns /\ done'[cl.gate] = "open") =>
              (cl'.ret = "TimedOut" /\ cl'.pc = "wait" /\ ~closed')]_vars

\* C17 witness: Close has returned TimedOut, its inner task still waiting
\* on the busy gate, the engine not closed
C17_Witness ==
    /\ cl.waited
    /\ cl.ret = "TimedOut"
    /\ cl.pc = "wait"
    /\ done[cl.gate] = "open"
    /\ ~closed

\* C19: a Rollback that read a dirty schema and whose call of Force failed:
\* its inner function fails Generic there, with no call of Migrate made or
\* ahead; and when the call has returned in time it has returned Generic,
\* the gate it made and the Migrator's current gate are idle (a Close called
\* now finds nothing to wait for) and the lock timeout is the default.
C19_ForceErrorPath ==
    \A i \in Ops :
        LET r == op[i]
        IN  (r.kind = "Rollback" /\ r.forceErr = "error") =>
                /\ r.bad
                /\ r.forced = 1
                /\ r.migrated = 0
                /\ r.pc \in {"select", "close", "finished", "panicked"}
                /\ r.err = "Generic"
                /\ InTime(r) => /\ r.ret = "Generic"
                                /\ done[i] = "closed"
                                /\ done[selfDone] = "closed"
                                /\ LockTimeout = "default"

\* C19 witness: a Rollback with a deadline read a dirty schema, Force
\* failed, and it has returned Generic in time with the gate idle
C19_Witness ==
    \E i \in Ops :
        /\ op[i].kind = "Rollback" /\ op[i].bad /\ op[i].deadline
        /\ op[i].forceErr = "error"
        /\ InTime(op[i]) /\ op[i].ret = "Generic"
        /\ done[selfDone] = "closed"
        /\ dirty

====
